---- MODULE Spec2Model ----
(***************************************************************************)
(* A model of src/index.ts of search-params-utils: typed extraction from   *)
(* a URLSearchParams collection and the copy / delete / filter / add /     *)
(* create / to-object transforms.                                          *)
(*                                                                         *)
(* A JavaScript string value is a sequence of one-character strings, so    *)
(* that parseInt, parseFloat and toString are computed character by        *)
(* character.  Keys are only compared, never parsed: they are TLA+         *)
(* strings.  A URLSearchParams object is a cell of the heap holding its    *)
(* ordered list of <<key, value>> pairs; a reference is a heap index.      *)
(* Every JavaScript value carries a tag t.                                 *)
(***************************************************************************)
EXTENDS Integers, Sequences, FiniteSets, TLC

VARIABLES heap, p0, op, args, res

vars == <<heap, p0, op, args, res>>

-----------------------------------------------------------------------------
(* Bounds *)

\* longest input collection of the extraction specification
MaxGetLen == 2
\* longest input collection of the transform specification
MaxLen == 3
\* longest list of keys handed to deleteSearchParams / filterSearchParams /
\* searchParamsToObject
MaxKeyList == 2
\* most append / set / delete calls made on a copy
MaxMut == 2

-----------------------------------------------------------------------------
(* JavaScript values *)

Undefined == [t |-> "undefined"]
Null == [t |-> "null"]
NaN == [t |-> "NaN"]
Str(s) == [t |-> "str", v |-> s]
Bool(b) == [t |-> "bool", v |-> b]
\* the number m * 10^e; e = 0 for an integer, e < 0 with m not a multiple of 10 otherwise
Num(m, e) == [t |-> "num", m |-> m, e |-> e]
Infinity(neg) == [t |-> "inf", neg |-> neg]
\* new Date(s): the Date built from s by the engine's lenient parser, possibly invalid
Date(s) == [t |-> "date", src |-> s]
Arr(items) == [t |-> "arr", v |-> items]
Ref(i) == [t |-> "ref", v |-> i]
\* a raised TypeError escaping the call
TypeError == [t |-> "TypeError"]

-----------------------------------------------------------------------------
(* Characters and numeric parsing (ECMAScript parseInt / parseFloat) *)

DecDigits == <<"0", "1", "2", "3", "4", "5", "6", "7", "8", "9">>
HexLower == <<"0", "1", "2", "3", "4", "5", "6", "7", "8", "9", "a", "b", "c", "d", "e", "f">>
HexUpper == <<"0", "1", "2", "3", "4", "5", "6", "7", "8", "9", "A", "B", "C", "D", "E", "F">>

IsWhiteSpace(c) == c \in {" ", "\t", "\n", "\r"}

IsDigit(c, radix) ==
  \E i \in 1..radix : HexLower[i] = c \/ HexUpper[i] = c

DigitValue(c) ==
  (CHOOSE i \in 1..16 : HexLower[i] = c \/ HexUpper[i] = c) - 1

RECURSIVE TrimStart(_)
TrimStart(s) ==
  IF s # <<>> /\ IsWhiteSpace(Head(s)) THEN TrimStart(Tail(s)) ELSE s

\* the longest prefix of s made of digits of the radix
RECURSIVE TakeDigits(_, _)
TakeDigits(s, radix) ==
  IF s # <<>> /\ IsDigit(Head(s), radix)
  THEN <<Head(s)>> \o TakeDigits(Tail(s), radix)
  ELSE <<>>

Drop(s, n) == SubSeq(s, n + 1, Len(s))

StartsWith(s, pre) == Len(s) >= Len(pre) /\ SubSeq(s, 1, Len(pre)) = pre

RECURSIVE DigitsToNat(_, _)
DigitsToNat(ds, radix) ==
  IF ds = <<>> THEN 0
  ELSE DigitsToNat(SubSeq(ds, 1, Len(ds) - 1), radix) * radix + DigitValue(ds[Len(ds)])

RECURSIVE Pow10(_)
Pow10(n) == IF n = 0 THEN 1 ELSE 10 * Pow10(n - 1)

\* canonical form of m * 10^e
RECURSIVE Normalize(_, _)
Normalize(m, e) ==
  IF e >= 0 THEN Num(m * Pow10(e), 0)
  ELSE IF m % 10 = 0 THEN Normalize(m \div 10, e + 1)
  ELSE Num(m, e)

\* parseInt(string) with no radix argument
parseInt(string) ==
  LET trimmed == TrimStart(string)
      neg == trimmed # <<>> /\ Head(trimmed) = "-"
      unsigned == IF trimmed # <<>> /\ Head(trimmed) \in {"+", "-"}
                  THEN Tail(trimmed) ELSE trimmed
      hex == StartsWith(unsigned, <<"0", "x">>) \/ StartsWith(unsigned, <<"0", "X">>)
      radix == IF hex THEN 16 ELSE 10
      body == IF hex THEN Drop(unsigned, 2) ELSE unsigned
      z == TakeDigits(body, radix)
      n == DigitsToNat(z, radix)
  IN IF z = <<>> THEN NaN
     ELSE Num(IF neg THEN 0 - n ELSE n, 0)

\* parseFloat(string): the longest prefix that is a StrDecimalLiteral
parseFloat(string) ==
  LET trimmed == TrimStart(string)
      neg == trimmed # <<>> /\ Head(trimmed) = "-"
      unsigned == IF trimmed # <<>> /\ Head(trimmed) \in {"+", "-"}
                  THEN Tail(trimmed) ELSE trimmed
      int == TakeDigits(unsigned, 10)
      r1 == Drop(unsigned, Len(int))
      dot == r1 # <<>> /\ Head(r1) = "."
      frac == IF dot THEN TakeDigits(Tail(r1), 10) ELSE <<>>
      r2 == IF dot THEN Drop(r1, 1 + Len(frac)) ELSE r1
      hasE == r2 # <<>> /\ Head(r2) \in {"e", "E"}
      r3 == IF hasE THEN Tail(r2) ELSE <<>>
      eneg == r3 # <<>> /\ Head(r3) = "-"
      r4 == IF r3 # <<>> /\ Head(r3) \in {"+", "-"} THEN Tail(r3) ELSE r3
      edigits == TakeDigits(r4, 10)
      ex == IF eneg THEN 0 - DigitsToNat(edigits, 10) ELSE DigitsToNat(edigits, 10)
      mant == DigitsToNat(int \o frac, 10)
  IN IF StartsWith(unsigned, <<"I", "n", "f", "i", "n", "i", "t", "y">>) THEN Infinity(neg)
     ELSE IF int = <<>> /\ frac = <<>> THEN NaN
     ELSE Normalize(IF neg THEN 0 - mant ELSE mant, ex - Len(frac))

-----------------------------------------------------------------------------
(* URLSearchParams primitives on the ordered list of <<key, value>> pairs *)

RECURSIVE SelectPairs(_, _)
\* the pairs of list whose key is in keep, in order
SelectPairs(list, keep) ==
  IF list = <<>> THEN <<>>
  ELSE IF Head(list)[1] \in keep
       THEN <<Head(list)>> \o SelectPairs(Tail(list), keep)
       ELSE SelectPairs(Tail(list), keep)

KeysOf(list) == {list[i][1] : i \in 1..Len(list)}

\* params.has(key)
Has(list, key) == \E i \in 1..Len(list) : list[i][1] = key

\* params.getAll(key): every value stored under key, in order
GetAll(list, key) ==
  LET hits == SelectPairs(list, {key})
  IN [i \in 1..Len(hits) |-> hits[i][2]]

\* params.get(key): the first value stored under key, or null
Get(list, key) ==
  IF Has(list, key) THEN Str(GetAll(list, key)[1]) ELSE Null

\* params.append(key, value)
AppendPair(list, key, value) == Append(list, <<key, value>>)

\* params.delete(key): removes every pair stored under key
DeleteKey(list, key) == SelectPairs(list, KeysOf(list) \ {key})

\* params.set(key, value): the first pair under key takes the value and the
\* others are removed; appended when the key is not there
SetPair(list, key, value) ==
  IF Has(list, key)
  THEN LET first == CHOOSE i \in 1..Len(list) :
                      /\ list[i][1] = key
                      /\ \A j \in 1..(i - 1) : list[j][1] # key
       IN SubSeq(list, 1, first - 1) \o <<(<<key, value>>)>>
            \o DeleteKey(Drop(list, first), key)
  ELSE AppendPair(list, key, value)

-----------------------------------------------------------------------------
(* Scalar extraction *)

getString(params, key) ==
  LET param == Get(params, key)
  IN IF param.t = "null" \/ param.v = <<>> THEN Undefined
     ELSE param

\* parseInt never throws, so the catch branch (log, return undefined) is dead code
getInt(params, key) ==
  LET param == Get(params, key)
  IN IF param.t = "null" \/ param.v = <<>> THEN Undefined
     ELSE parseInt(param.v)

\* parseFloat never throws, so the catch branch is dead code
getFloat(params, key) ==
  LET param == Get(params, key)
  IN IF param.t = "null" \/ param.v = <<>> THEN Undefined
     ELSE parseFloat(param.v)

WTrue == <<"t", "r", "u", "e">>
WFalse == <<"f", "a", "l", "s", "e">>

\* getBoolean without the validation of lines 53-55
getBooleanUnvalidated(params, key) ==
  LET param == Get(params, key)
  IN IF param.t = "null" \/ param.v = <<>> THEN Undefined
     ELSE Bool(param.v = WTrue)

\* the thrown Error is caught in the same function: logged, undefined returned
getBoolean(params, key) ==
  LET param == Get(params, key)
  IN IF param.t = "null" \/ param.v = <<>> THEN Undefined
     ELSE IF param.v # WTrue /\ param.v # WFalse THEN Undefined
     ELSE Bool(param.v = WTrue)

\* getDate testing only for null, not for the empty string
getDateNullOnly(params, key) ==
  LET param == Get(params, key)
  IN IF param.t = "null" THEN Undefined
     ELSE Date(param.v)

\* new Date(string) never throws: an unparseable string gives an invalid Date
getDate(params, key) ==
  LET param == Get(params, key)
  IN IF param.t = "null" \/ param.v = <<>> THEN Undefined
     ELSE Date(param.v)

-----------------------------------------------------------------------------
(* Array extraction *)

getStringArray(params, key) ==
  LET paramArray == GetAll(params, key)
  IN IF Len(paramArray) = 0 THEN Undefined
     ELSE Arr([i \in 1..Len(paramArray) |-> Str(paramArray[i])])

getIntArray(params, key) ==
  LET paramArray == GetAll(params, key)
  IN IF Len(paramArray) = 0 THEN Undefined
     ELSE Arr([i \in 1..Len(paramArray) |-> parseInt(paramArray[i])])

getFloatArray(params, key) ==
  LET paramArray == GetAll(params, key)
  IN IF Len(paramArray) = 0 THEN Undefined
     ELSE Arr([i \in 1..Len(paramArray) |-> parseFloat(paramArray[i])])

\* the callback's throw leaves map and is caught: logged, undefined returned
getBooleanArray(params, key) ==
  LET paramArray == GetAll(params, key)
  IN IF Len(paramArray) = 0 THEN Undefined
     ELSE IF \E i \in 1..Len(paramArray) :
               paramArray[i] # WTrue /\ paramArray[i] # WFalse
          THEN Undefined
     ELSE Arr([i \in 1..Len(paramArray) |-> Bool(paramArray[i] = WTrue)])

getDateArray(params, key) ==
  LET paramArray == GetAll(params, key)
  IN IF Len(paramArray) = 0 THEN Undefined
     ELSE Arr([i \in 1..Len(paramArray) |-> Date(paramArray[i])])

-----------------------------------------------------------------------------
(* Ordering extractor *)

WAsc == <<"a", "s", "c">>
WDesc == <<"d", "e", "s", "c">>

\* getOrdering resetting only the invalid orderDirection
getOrderingKeepOrderBy(params) ==
  LET orderBy == getString(params, "orderBy")
      orderDirection == getString(params, "orderDirection")
  IN IF orderDirection.t # "undefined"
        /\ orderDirection.v # WAsc /\ orderDirection.v # WDesc
     THEN [orderBy |-> orderBy, orderDirection |-> Undefined]
     ELSE [orderBy |-> orderBy, orderDirection |-> orderDirection]

getOrdering(params) ==
  LET orderBy == getString(params, "orderBy")
      orderDirection == getString(params, "orderDirection")
  IN IF orderDirection.t # "undefined"
        /\ orderDirection.v # WAsc /\ orderDirection.v # WDesc
     THEN [orderBy |-> Undefined, orderDirection |-> Undefined]
     ELSE [orderBy |-> orderBy, orderDirection |-> orderDirection]

-----------------------------------------------------------------------------
(* Typed values (ParamValue) and their string forms *)

RECURSIVE NatToDigits(_)
NatToDigits(n) ==
  IF n < 10 THEN <<DecDigits[n + 1]>>
  ELSE NatToDigits(n \div 10) \o <<DecDigits[(n % 10) + 1]>>

RECURSIVE PadLeft(_, _)
PadLeft(ds, len) == IF Len(ds) >= len THEN ds ELSE PadLeft(<<"0">> \o ds, len)

\* Number.prototype.toString(): decimal notation (integers, and fractions
\* of magnitude at least 1e-6)
NumberToString(n) ==
  LET a == IF n.m < 0 THEN 0 - n.m ELSE n.m
      sign == IF n.m < 0 THEN <<"-">> ELSE <<>>
      ds == PadLeft(NatToDigits(a), 1 - n.e)
      k == Len(ds) + n.e
  IN IF n.e = 0 THEN sign \o NatToDigits(a)
     ELSE sign \o SubSeq(ds, 1, k) \o <<".">> \o SubSeq(ds, k + 1, Len(ds))

\* value.toString() of a string, number or boolean
toString(value) ==
  CASE value.t = "str" -> value.v
    [] value.t = "num" -> NumberToString(value)
    [] value.t = "bool" -> IF value.v THEN WTrue ELSE WFalse

-----------------------------------------------------------------------------
(* Collection transforms.  An operation that builds a URLSearchParams      *)
(* takes the heap and returns the new heap with the reference it returns.  *)

\* new URLSearchParams()
NewParams(h) == [heap |-> Append(h, <<>>), ref |-> Len(h) + 1]

RECURSIVE CopyLoop(_, _)
\* for (const [key, value] of params) newParams.append(key, value)
CopyLoop(params, newParams) ==
  IF params = <<>> THEN newParams
  ELSE CopyLoop(Tail(params), AppendPair(newParams, Head(params)[1], Head(params)[2]))

\* copySearchParams handing back its argument instead of a new collection
copySearchParamsAlias(h, params) == [heap |-> h, ref |-> params]

copySearchParams(h, params) ==
  LET n == NewParams(h)
  IN [heap |-> [n.heap EXCEPT ![n.ref] = CopyLoop(h[params], @)], ref |-> n.ref]

RECURSIVE DeleteLoop(_, _)
\* for (const key of keysToDelete) newParams.delete(key)
DeleteLoop(keysToDelete, newParams) ==
  IF keysToDelete = <<>> THEN newParams
  ELSE DeleteLoop(Tail(keysToDelete), DeleteKey(newParams, Head(keysToDelete)))

deleteSearchParams(h, params, keysToDelete) ==
  LET c == copySearchParams(h, params)
  IN [heap |-> [c.heap EXCEPT ![c.ref] = DeleteLoop(keysToDelete, @)], ref |-> c.ref]

\* keys.includes(key)
Includes(keys, key) == \E i \in 1..Len(keys) : keys[i] = key

RECURSIVE FilterLoop(_, _, _)
FilterLoop(params, keysToKeep, newParams) ==
  IF params = <<>> THEN newParams
  ELSE FilterLoop(Tail(params), keysToKeep,
                  IF Includes(keysToKeep, Head(params)[1])
                  THEN AppendPair(newParams, Head(params)[1], Head(params)[2])
                  ELSE newParams)

\* filterSearchParams keeping the keys that are not listed
filterSearchParamsInverted(h, params, keysToKeep) ==
  LET n == NewParams(h)
      listed == {keysToKeep[i] : i \in 1..Len(keysToKeep)}
  IN [heap |-> [n.heap EXCEPT ![n.ref] = SelectPairs(h[params], KeysOf(h[params]) \ listed)],
      ref |-> n.ref]

filterSearchParams(h, params, keysToKeep) ==
  LET n == NewParams(h)
  IN [heap |-> [n.heap EXCEPT ![n.ref] = FilterLoop(h[params], keysToKeep, @)],
      ref |-> n.ref]

RECURSIVE AppendItems(_, _, _)
\* for (const item of value) params.append(key, item.toString())
AppendItems(params, key, items) ==
  IF items = <<>> THEN params
  ELSE AppendItems(AppendPair(params, key, toString(Head(items))), key, Tail(items))

\* one round of createSearchParams's loop
CreateEntry(urlSearchParams, key, value) ==
  IF value.t = "undefined" THEN urlSearchParams
  ELSE IF value.t = "arr" THEN AppendItems(urlSearchParams, key, value.v)
  ELSE SetPair(urlSearchParams, key, toString(value))

RECURSIVE CreateLoop(_, _)
CreateLoop(entries, urlSearchParams) ==
  IF entries = <<>> THEN urlSearchParams
  ELSE CreateLoop(Tail(entries),
                  CreateEntry(urlSearchParams, Head(entries)[1], Head(entries)[2]))

\* params is the typed mapping as Object.entries lists it
createSearchParams(h, params) ==
  LET n == NewParams(h)
  IN [heap |-> [n.heap EXCEPT ![n.ref] = CreateLoop(params, @)], ref |-> n.ref]

\* one round of addSearchParams's loop that never clears the key
AddEntryNoClear(newParams, key, value) ==
  IF value.t = "undefined" THEN newParams
  ELSE IF value.t = "arr" THEN AppendItems(newParams, key, value.v)
  ELSE SetPair(newParams, key, toString(value))

\* one round of addSearchParams's loop appending a scalar instead of setting it
AddEntryAppendScalar(newParams, key, value) ==
  IF value.t = "undefined" THEN newParams
  ELSE IF value.t = "arr"
       THEN AppendItems(IF Len(value.v) = 0 \/ Has(newParams, key)
                        THEN DeleteKey(newParams, key) ELSE newParams,
                        key, value.v)
  ELSE AppendPair(newParams, key, toString(value))

\* one round of addSearchParams's loop
AddEntry(newParams, key, value) ==
  IF value.t = "undefined" THEN newParams
  ELSE IF value.t = "arr"
       THEN AppendItems(IF Len(value.v) = 0 \/ Has(newParams, key)
                        THEN DeleteKey(newParams, key) ELSE newParams,
                        key, value.v)
  ELSE SetPair(newParams, key, toString(value))

RECURSIVE AddLoop(_, _)
AddLoop(entries, newParams) ==
  IF entries = <<>> THEN newParams
  ELSE AddLoop(Tail(entries), AddEntry(newParams, Head(entries)[1], Head(entries)[2]))

addSearchParams(h, params, paramsToAdd) ==
  LET c == copySearchParams(h, params)
  IN [heap |-> [c.heap EXCEPT ![c.ref] = AddLoop(paramsToAdd, @)], ref |-> c.ref]

-----------------------------------------------------------------------------
(* searchParamsToObject.  A plain object {} is the function from its own   *)
(* keys to their values; a key it does not own is looked up on             *)
(* Object.prototype.                                                       *)

\* the data properties every plain object inherits (the accessor __proto__
\* is left out: no key of the model is named so)
ObjectPrototypeKeys ==
  {"constructor", "toString", "toLocaleString", "valueOf", "hasOwnProperty",
   "isPrototypeOf", "propertyIsEnumerable"}

EmptyObject == [k \in {} |-> Undefined]

\* object[key]
ObjGet(object, key) ==
  IF key \in DOMAIN object THEN object[key]
  ELSE IF key \in ObjectPrototypeKeys THEN [t |-> "inherited"]
  ELSE Undefined

\* object[key] = value
ObjSet(object, key, value) == (key :> value) @@ object

Obj(object) == [t |-> "obj", v |-> object]

\* one round of searchParamsToObject's loop; TypeError when push is called
\* on a value that is no array
ToObjectEntry(object, keysToArray, key, value) ==
  IF Includes(keysToArray, key)
  THEN LET o1 == IF ObjGet(object, key).t = "undefined"
                 THEN ObjSet(object, key, Arr(<<>>))
                 ELSE object
           target == ObjGet(o1, key)
       IN IF target.t = "arr"
          THEN Obj(ObjSet(o1, key, Arr(Append(target.v, Str(value)))))
          ELSE TypeError
  ELSE Obj(ObjSet(object, key, Str(value)))

RECURSIVE ToObjectLoop(_, _, _)
ToObjectLoop(params, keysToArray, object) ==
  IF params = <<>> THEN Obj(object)
  ELSE LET o == ToObjectEntry(object, keysToArray, Head(params)[1], Head(params)[2])
       IN IF o.t = "TypeError" THEN TypeError
          ELSE ToObjectLoop(Tail(params), keysToArray, o.v)

searchParamsToObject(params, keysToArray) == ToObjectLoop(params, keysToArray, EmptyObject)

-----------------------------------------------------------------------------
(* The extraction specification: one extractor is called on an input        *)
(* collection drawn from GetPairs.                                          *)

GetKeys == {"a", "orderBy", "orderDirection"}

WName == <<"n", "a", "m", "e">>
WSideways == <<"s", "i", "d", "e", "w", "a", "y", "s">>
WUpperTrue == <<"T", "R", "U", "E">>
W42 == <<"4", "2">>
WAbc == <<"a", "b", "c">>

\* the values stored under the generic key "a"
GetWords ==
  { <<>>,
    W42,
    WAbc,
    <<"1", "2", "a", "b", "c">>,
    <<"-", "7">>,
    <<" ", "8">>,
    <<"0", "x", "1", "f">>,
    <<"1", ".", "5">>,
    <<"2", "e", "1">>,
    WUpperTrue, WTrue, WFalse }

GetPairs ==
  ({"a"} \X GetWords)
    \cup ({"orderBy"} \X {<<>>, WName})
    \cup ({"orderDirection"} \X {<<>>, WAsc, WDesc, WSideways})

\* every sequence over S of length at most n
SeqsUpTo(S, n) == UNION {[1..k -> S] : k \in 0..n}

GetInit ==
  /\ \E p \in SeqsUpTo(GetPairs, MaxGetLen) :
       /\ heap = <<p>>
       /\ p0 = p
  /\ op = "init"
  /\ args = [key |-> "none"]
  /\ res = Undefined

\* one call extractor(params, key) on the input collection
Called(name, key, value) ==
  /\ op = "init"
  /\ op' = name
  /\ args' = [key |-> key]
  /\ res' = value
  /\ UNCHANGED <<heap, p0>>

CallGetString == \E key \in GetKeys : Called("getString", key, getString(heap[1], key))
CallGetInt == \E key \in GetKeys : Called("getInt", key, getInt(heap[1], key))
CallGetFloat == \E key \in GetKeys : Called("getFloat", key, getFloat(heap[1], key))
CallGetBoolean == \E key \in GetKeys : Called("getBoolean", key, getBoolean(heap[1], key))
CallGetDate == \E key \in GetKeys : Called("getDate", key, getDate(heap[1], key))
CallGetStringArray ==
  \E key \in GetKeys : Called("getStringArray", key, getStringArray(heap[1], key))
CallGetIntArray ==
  \E key \in GetKeys : Called("getIntArray", key, getIntArray(heap[1], key))
CallGetFloatArray ==
  \E key \in GetKeys : Called("getFloatArray", key, getFloatArray(heap[1], key))
CallGetBooleanArray ==
  \E key \in GetKeys : Called("getBooleanArray", key, getBooleanArray(heap[1], key))
CallGetDateArray ==
  \E key \in GetKeys : Called("getDateArray", key, getDateArray(heap[1], key))
CallGetOrdering == Called("getOrdering", "none", getOrdering(heap[1]))

GetNext ==
  \/ CallGetString
  \/ CallGetInt
  \/ CallGetFloat
  \/ CallGetBoolean
  \/ CallGetDate
  \/ CallGetStringArray
  \/ CallGetIntArray
  \/ CallGetFloatArray
  \/ CallGetBooleanArray
  \/ CallGetDateArray
  \/ CallGetOrdering

GetSpec == GetInit /\ [][GetNext]_vars

-----------------------------------------------------------------------------
(* The transform specification: the caller holds an input collection       *)
(* (heap cell 1, whose pairs at the start are p0) and calls the transforms *)
(* on it and on what they return.                                          *)

TKeys == {"a", "b"}
TVals == {<<"1">>, <<"2">>}

WX == <<"x">>
WY == <<"y">>

TypedValues ==
  { Undefined,
    Str(WX),
    Num(1, 0),
    Num(15, -1),
    Bool(TRUE),
    Arr(<<>>),
    Arr(<<Num(3, 0), Num(4, 0)>>),
    Arr(<<Str(WX), Str(WY)>>),
    Arr(<<Bool(FALSE)>>) }

\* the typed mappings over keys, as Object.entries lists them: no key twice
Mappings(keys) ==
  {m \in SeqsUpTo(keys \X TypedValues, Cardinality(keys)) :
     \A i, j \in 1..Len(m) : i # j => m[i][1] # m[j][1]}

AddMappings == Mappings(TKeys)

KeyLists(keys) == SeqsUpTo(keys, MaxKeyList)

Init ==
  /\ \E p \in SeqsUpTo(TKeys \X TVals, MaxLen) :
       /\ heap = <<p>>
       /\ p0 = p
  /\ op = "init"
  /\ args = [none |-> TRUE]
  /\ res = Undefined

CallCopy ==
  /\ op = "init"
  /\ LET c == copySearchParams(heap, 1)
     IN /\ heap' = c.heap
        /\ res' = Ref(c.ref)
  /\ op' = "copy"
  /\ args' = [mutations |-> 0]
  /\ UNCHANGED p0

\* the caller changes the copy it was handed
Mutated(list) ==
  /\ op \in {"copy", "mutated"}
  /\ args.mutations < MaxMut
  /\ heap' = [heap EXCEPT ![res.v] = list]
  /\ op' = "mutated"
  /\ args' = [mutations |-> args.mutations + 1]
  /\ UNCHANGED <<p0, res>>

MutateAppend ==
  \E key \in TKeys, value \in TVals : Mutated(AppendPair(heap[res.v], key, value))

MutateSet ==
  \E key \in TKeys, value \in TVals : Mutated(SetPair(heap[res.v], key, value))

MutateDelete ==
  \E key \in TKeys : Mutated(DeleteKey(heap[res.v], key))

CallDelete ==
  /\ op = "init"
  /\ \E keysToDelete \in KeyLists(TKeys) :
       LET r == deleteSearchParams(heap, 1, keysToDelete)
       IN /\ heap' = r.heap
          /\ res' = Ref(r.ref)
          /\ args' = [keysToDelete |-> keysToDelete]
  /\ op' = "delete"
  /\ UNCHANGED p0

CallFilter ==
  /\ op = "init"
  /\ \E keysToKeep \in KeyLists(TKeys) :
       LET r == filterSearchParams(heap, 1, keysToKeep)
       IN /\ heap' = r.heap
          /\ res' = Ref(r.ref)
          /\ args' = [keysToKeep |-> keysToKeep]
  /\ op' = "filter"
  /\ UNCHANGED p0

\* filterSearchParams(deleteSearchParams(p, D), K)
CallFilterAfterDelete ==
  /\ op = "delete"
  /\ \E keysToKeep \in KeyLists(TKeys) :
       LET r == filterSearchParams(heap, res.v, keysToKeep)
       IN /\ heap' = r.heap
          /\ res' = Ref(r.ref)
          /\ args' = [keysToDelete |-> args.keysToDelete, keysToKeep |-> keysToKeep,
                      inputRef |-> res.v, input |-> heap[res.v]]
  /\ op' = "deleteFilter"
  /\ UNCHANGED p0

CallAdd ==
  /\ op = "init"
  /\ \E m \in AddMappings :
       LET r == addSearchParams(heap, 1, m)
       IN /\ heap' = r.heap
          /\ res' = Ref(r.ref)
          /\ args' = [m |-> m]
  /\ op' = "add"
  /\ UNCHANGED p0

\* addSearchParams(addSearchParams(p, m), m)
CallAddAgain ==
  /\ op = "add"
  /\ LET r == addSearchParams(heap, res.v, args.m)
     IN /\ heap' = r.heap
        /\ res' = Ref(r.ref)
        /\ args' = [m |-> args.m, inputRef |-> res.v, input |-> heap[res.v]]
  /\ op' = "addAgain"
  /\ UNCHANGED p0

Next ==
  \/ CallCopy
  \/ MutateAppend
  \/ MutateSet
  \/ MutateDelete
  \/ CallDelete
  \/ CallFilter
  \/ CallFilterAfterDelete
  \/ CallAdd
  \/ CallAddAgain

Spec == Init /\ [][Next]_vars

-----------------------------------------------------------------------------
(* The construction specification: createSearchParams builds a collection  *)
(* from a typed mapping and searchParamsToObject reads it back.            *)

CKeys == {"a", "b", "constructor"}

CreateMappings == Mappings(CKeys)

CreateInit ==
  /\ heap = <<>>
  /\ p0 = <<>>
  /\ op = "init"
  /\ args = [none |-> TRUE]
  /\ res = Undefined

CallCreate ==
  /\ op = "init"
  /\ \E m \in CreateMappings :
       LET r == createSearchParams(heap, m)
       IN /\ heap' = r.heap
          /\ res' = Ref(r.ref)
          /\ args' = [m |-> m]
  /\ op' = "create"
  /\ UNCHANGED p0

\* searchParamsToObject(createSearchParams(m), keysToArray)
CallToObject ==
  /\ op = "create"
  /\ \E keysToArray \in KeyLists(CKeys) :
       /\ res' = searchParamsToObject(heap[res.v], keysToArray)
       /\ args' = [m |-> args.m, keysToArray |-> keysToArray]
  /\ op' = "toObject"
  /\ UNCHANGED <<heap, p0>>

CreateNext ==
  \/ CallCreate
  \/ CallToObject

CreateSpec == CreateInit /\ [][CreateNext]_vars

-----------------------------------------------------------------------------
(* Properties of the extractors.  They are stated on the input collection  *)
(* p0 by position, not through the primitives the extractors use.          *)

\* position i holds the first pair stored under key
IsFirst(list, i, key) ==
  /\ i \in 1..Len(list)
  /\ list[i][1] = key
  /\ \A j \in 1..(i - 1) : list[j][1] # key

\* the first value under key is v
FirstIs(list, key, v) == \E i \in 1..Len(list) : IsFirst(list, i, key) /\ list[i][2] = v

\* key is missing, or its first value is the empty string
MissingOrEmpty(list, key) ==
  \A i \in 1..Len(list) : IsFirst(list, i, key) => list[i][2] = <<>>

ScalarExtractors == {"getString", "getInt", "getFloat", "getBoolean", "getDate"}

\* C1: getInt / getFloat on a non-empty first value with no numeric prefix
\* return absent, never NaN; getInt on "42" returns 42.
C1_AbsentOnUnparseable ==
  /\ (op = "getInt" /\ ~MissingOrEmpty(p0, args.key)
        /\ \E i \in 1..Len(p0) : IsFirst(p0, i, args.key) /\ parseInt(p0[i][2]).t = "NaN")
       => res.t = "undefined"
  /\ (op = "getFloat" /\ ~MissingOrEmpty(p0, args.key)
        /\ \E i \in 1..Len(p0) : IsFirst(p0, i, args.key) /\ parseFloat(p0[i][2]).t = "NaN")
       => res.t = "undefined"
  /\ op \in {"getInt", "getFloat"} => res.t # "NaN"
  /\ (op = "getInt" /\ FirstIs(p0, args.key, W42)) => (res.t = "num" /\ res.m = 42 /\ res.e = 0)

\* C2: getIntArray is absent when the key has no value or when any value is
\* unparseable, and otherwise is the parsed integers in order.
C2_IntArrayAllOrNothing ==
  op = "getIntArray" =>
    LET idx == {i \in 1..Len(p0) : p0[i][1] = args.key}
    IN /\ idx = {} => res.t = "undefined"
       /\ (\E i \in idx : parseInt(p0[i][2]).t = "NaN") => res.t = "undefined"
       /\ (idx # {} /\ \A i \in idx : parseInt(p0[i][2]).t = "num") =>
            /\ res.t = "arr"
            /\ Len(res.v) = Cardinality(idx)
            /\ \A i \in idx :
                 res.v[Cardinality({j \in idx : j <= i})] = parseInt(p0[i][2])

\* C3: every scalar extractor returns absent when the key is missing or its
\* first value is the empty string, whatever values follow under the key.
C3_MissingOrEmptyIsAbsent ==
  (op \in ScalarExtractors /\ MissingOrEmpty(p0, args.key)) => res.t = "undefined"

\* getDate met an empty first value followed by a non-empty value of the key
C3_Witness ==
  /\ op = "getDate"
  /\ FirstIs(p0, args.key, <<>>)
  /\ \E i \in 1..Len(p0) : p0[i][1] = args.key /\ p0[i][2] # <<>>
  /\ res.t = "undefined"

C9_Boolean ==
  (op = "getBoolean" /\ ~MissingOrEmpty(p0, args.key)) =>
    /\ res.t \in {"bool", "undefined"}
    /\ (res.t = "bool" /\ res.v = TRUE) <=> FirstIs(p0, args.key, WTrue)
    /\ (res.t = "bool" /\ res.v = FALSE) <=> FirstIs(p0, args.key, WFalse)
    /\ res.t = "undefined" <=>
         (~FirstIs(p0, args.key, WTrue) /\ ~FirstIs(p0, args.key, WFalse))

\* getBoolean met "TRUE" and returned absent
C9_Witness ==
  /\ op = "getBoolean"
  /\ FirstIs(p0, args.key, WUpperTrue)
  /\ res.t = "undefined"

-----------------------------------------------------------------------------
(* Properties of the transforms, stated by position on the collections. *)

\* the pairs of list whose key is in keep, in list's order: the n-th pair of
\* the result is the pair at the n-th position of list that holds such a key
Kept(list, keep) ==
  LET idx == {i \in 1..Len(list) : list[i][1] \in keep}
      nth(n) == CHOOSE i \in idx : Cardinality({j \in idx : j <= i}) = n
  IN [n \in 1..Cardinality(idx) |-> list[nth(n)]]

\* the values stored under key, in order
ValuesUnder(list, key) ==
  LET hits == Kept(list, {key})
  IN [n \in 1..Len(hits) |-> hits[n][2]]

KeySet(keys) == {keys[i] : i \in 1..Len(keys)}

\* C4: after addSearchParams, the values under a key given a sequence are
\* exactly the string forms of the sequence's elements, in order, replacing
\* every earlier occurrence; an empty sequence leaves no entry for the key.
C4_SequenceReplaces ==
  op = "add" =>
    \A i \in 1..Len(args.m) :
      LET k == args.m[i][1]
          value == args.m[i][2]
      IN value.t = "arr" =>
           /\ ValuesUnder(heap[res.v], k) = [n \in 1..Len(value.v) |-> toString(value.v[n])]
           /\ value.v = <<>> => ~(k \in KeysOf(heap[res.v]))

\* b=1&b=2 with {b: [3, 4]} added holds b exactly twice, as 3 and 4
C4_Witness ==
  /\ op = "add"
  /\ ValuesUnder(p0, "b") = <<(<<"1">>), (<<"2">>)>>
  /\ \E i \in 1..Len(args.m) :
       args.m[i] = <<"b", Arr(<<Num(3, 0), Num(4, 0)>>)>>
  /\ ValuesUnder(heap[res.v], "b") = <<(<<"3">>), (<<"4">>)>>

\* C6: deleteSearchParams(p, D) is the pairs of p with key not in D,
\* filterSearchParams(p, K) the pairs with key in K, and
\* filterSearchParams(deleteSearchParams(p, D), K) the pairs with key in K and
\* not in D, each in p's order with every repeat kept.
C6_DeleteThenFilter ==
  /\ op = "delete" => heap[res.v] = Kept(p0, KeysOf(p0) \ KeySet(args.keysToDelete))
  /\ op = "filter" => heap[res.v] = Kept(p0, KeySet(args.keysToKeep))
  /\ op = "deleteFilter" =>
       heap[res.v] = Kept(p0, KeySet(args.keysToKeep) \ KeySet(args.keysToDelete))

\* overlapping key lists: a repeated key survives, another key is dropped
C6_Witness ==
  /\ op = "deleteFilter"
  /\ KeySet(args.keysToKeep) = {"a", "b"}
  /\ KeySet(args.keysToDelete) = {"b"}
  /\ Len(ValuesUnder(p0, "a")) = 2
  /\ Len(ValuesUnder(p0, "b")) = 1
  /\ Len(heap[res.v]) = 2

\* the keys of the typed mapping m whose value is a sequence
SequenceKeys(m) == {m[i][1] : i \in {j \in 1..Len(m) : m[j][2].t = "arr"}}

\* what the round trip is to give for the typed mapping m
RoundTrips(m, result) ==
  /\ result.t = "obj"
  /\ \A i \in 1..Len(m) :
       LET k == m[i][1]
           value == m[i][2]
       IN /\ value.t = "undefined" => ~(k \in DOMAIN result.v)
          /\ value.t \in {"str", "num", "bool"} =>
               /\ k \in DOMAIN result.v
               /\ result.v[k].t = "str"
               /\ result.v[k].v = toString(value)
          /\ (value.t = "arr" /\ value.v # <<>>) =>
               /\ k \in DOMAIN result.v
               /\ result.v[k].t = "arr"
               /\ result.v[k].v = [n \in 1..Len(value.v) |-> Str(toString(value.v[n]))]

\* C7: searchParamsToObject(createSearchParams(m), A), with A exactly the
\* keys of m that hold a sequence, maps every scalar key to its string form
\* and every non-empty sequence key to its elements' string forms, and has
\* no key whose value in m is absent.
C7_RoundTrip ==
  (op = "toObject" /\ KeySet(args.keysToArray) = SequenceKeys(args.m))
    => RoundTrips(args.m, res)

\* the round trip of C7 for mappings none of whose sequence keys names a
\* property of Object.prototype
C7_RoundTripOwnKeys ==
  (op = "toObject" /\ KeySet(args.keysToArray) = SequenceKeys(args.m)
     /\ SequenceKeys(args.m) \cap ObjectPrototypeKeys = {})
    => RoundTrips(args.m, res)

\* C8: copySearchParams returns the same pairs in the same order in a
\* collection of its own: whatever is appended, set or deleted on the copy,
\* the input keeps its pairs; deleteSearchParams, filterSearchParams and
\* addSearchParams leave the pairs of the collection they are given unchanged.
C8_InputUnchanged ==
  /\ heap[1] = p0
  /\ op = "copy" => heap[res.v] = p0
  /\ op \in {"deleteFilter", "addAgain"} => heap[args.inputRef] = args.input

\* the copy was changed and now differs from the input
C8_Witness ==
  /\ op = "mutated"
  /\ args.mutations = 2
  /\ p0 # <<>>
  /\ heap[res.v] # p0
  /\ heap[1] = p0

\* C10: adding the same typed mapping a second time leaves the values
\* stored under every key as the first addition left them.
C10_AddIdempotent ==
  op = "addAgain" =>
    \A k \in TKeys : ValuesUnder(heap[res.v], k) = ValuesUnder(args.input, k)

\* a mapping with a scalar and a non-empty sequence was added twice to a
\* collection that held both keys
C10_Witness ==
  /\ op = "addAgain"
  /\ KeysOf(p0) = {"a", "b"}
  /\ \E i, j \in 1..Len(args.m) :
       /\ args.m[i][2].t = "num"
       /\ args.m[j][2].t = "arr"
       /\ args.m[j][2].v # <<>>
  /\ heap[res.v] # <<>>

====
